---------------------------- MODULE Spec2Model ----------------------------
(***************************************************************************)
(* Model of helix-core/src/surround.rs: the pair table, the balanced pair  *)
(* locator, the nth pair locator and the multi-cursor surround locator.    *)
(*                                                                         *)
(* A character is its Unicode scalar value (Rust's char).  A text is a     *)
(* sequence of characters; buffer offsets are zero-based as in the source, *)
(* so the character at offset i is text[i + 1].                            *)
(*                                                                         *)
(* Option<T> is a sequence of length at most one: None is <<>> and         *)
(* Some(x) is <<x>>.  A span (open_pos, close_pos) is <<open_pos,          *)
(* close_pos>>.                                                            *)
(***************************************************************************)
EXTENDS Integers, Sequences, FiniteSets

VARIABLES
    text,       \* the buffer the calls work on (an immutable snapshot)
    op,         \* the function called last, "init" before any call
    ch,         \* its delimiter character argument
    pos,        \* its cursor offset argument
    n,          \* find_nth_pairs_pos's count argument
    selection,  \* get_surround_pos's cursors: the sequence of range heads
    skip,       \* get_surround_pos's skip argument
    outcome     \* how the call ended: [status, value, wrapped]

vars == <<text, op, ch, pos, n, selection, skip, outcome>>

---------------------------------------------------------------------------
(* Bounds of the model.                                                    *)

MaxLen == 5

MaxSurroundLen == 4

MaxN == 2

MaxCursors == 2

MaxSkip == 1

(* usize is modelled with a scaled-down word: any modulus above every      *)
(* offset of the model wraps pos - 1 at pos = 0 to an offset far beyond    *)
(* the buffer, as 2^64 does.                                               *)
UsizeModulus == 2 ^ 16

---------------------------------------------------------------------------
(* Characters.                                                             *)

LParen == 40

RParen == 41

Quote == 34

PAIRS ==
    << <<40, 41>>,        \* ( )
       <<91, 93>>,        \* [ ]
       <<123, 125>>,      \* { }
       <<60, 62>>,        \* < >
       <<171, 187>>,      \* « »
       <<12300, 12301>>,  \* 「 」
       <<65288, 65289>>   \* （ ）
    >>

None == << >>

Some(x) == <<x>>

(* RopeSlice::char, RopeSlice::len_chars *)
char(t, i) == t[i + 1]

len_chars(t) == Len(t)

---------------------------------------------------------------------------
(* get_pair: the first table entry one of whose members is c, else (c, c). *)

RECURSIVE find_entry(_, _)
find_entry(i, c) ==
    IF i > Len(PAIRS) THEN None
    ELSE IF PAIRS[i][1] = c \/ PAIRS[i][2] = c THEN Some(PAIRS[i])
    ELSE find_entry(i + 1, c)

get_pair_open_only(c) ==
    LET hits == {i \in 1..Len(PAIRS) : PAIRS[i][1] = c}
    IN  IF hits = {} THEN <<c, c>>
        ELSE PAIRS[CHOOSE i \in hits : \A j \in hits : i <= j]

get_pair(c) ==
    LET found == find_entry(1, c)
    IN  IF found = None THEN <<c, c>> ELSE found[1]

---------------------------------------------------------------------------
(* find_balanced_pairs_pos                                                 *)

(* The backward scan of lines 44-60.  p is the iterator's position: prev() *)
(* yields the character at p - 1, or nothing at the buffer start.          *)
RECURSIVE scan_open_no_skip(_, _, _, _, _)
scan_open_no_skip(t, open, close, p, skp) ==
    IF p = 0 THEN None
    ELSE IF char(t, p - 1) = open THEN Some(p - 1)
    ELSE scan_open_no_skip(t, open, close, p - 1, skp)

RECURSIVE scan_open(_, _, _, _, _)
scan_open(t, open, close, p, skp) ==
    IF p = 0 THEN None
    ELSE LET c == char(t, p - 1)
         IN  IF c = open
             THEN IF skp > 0
                  THEN scan_open(t, open, close, p - 1, skp - 1)
                  ELSE Some(p - 1)
             ELSE IF c = close
             THEN scan_open(t, open, close, p - 1, skp + 1)
             ELSE scan_open(t, open, close, p - 1, skp)

(* The forward scan of lines 62-73 over text.slice(open_pos + 1..), at     *)
(* enumeration index i with the running count.                             *)
RECURSIVE scan_close_off_by_one(_, _, _, _, _, _)
scan_close_off_by_one(t, open, close, open_pos, i, count) ==
    IF open_pos + 1 + i >= len_chars(t) THEN None
    ELSE LET c == char(t, open_pos + 1 + i)
         IN  IF c = open
             THEN scan_close_off_by_one(t, open, close, open_pos, i + 1, count + 1)
             ELSE IF c = close
             THEN IF count - 1 = 0
                  THEN Some(<<open_pos, open_pos + i>>)
                  ELSE scan_close_off_by_one(t, open, close, open_pos, i + 1, count - 1)
             ELSE scan_close_off_by_one(t, open, close, open_pos, i + 1, count)

RECURSIVE scan_close(_, _, _, _, _, _)
scan_close(t, open, close, open_pos, i, count) ==
    IF open_pos + 1 + i >= len_chars(t) THEN None
    ELSE LET c == char(t, open_pos + 1 + i)
         IN  IF c = open
             THEN scan_close(t, open, close, open_pos, i + 1, count + 1)
             ELSE IF c = close
             THEN IF count - 1 = 0
                  THEN Some(<<open_pos, open_pos + 1 + i>>)
                  ELSE scan_close(t, open, close, open_pos, i + 1, count - 1)
             ELSE scan_close(t, open, close, open_pos, i + 1, count)

find_balanced_pairs_pos_no_shortcut(t, c, p) ==
    LET pair == get_pair(c)
        open == pair[1]
        close == pair[2]
        open_pos == scan_open(t, open, close, p, 0)
    IN  IF open_pos = None THEN None
        ELSE scan_close(t, open, close, open_pos[1], 0, 1)

find_balanced_pairs_pos(t, c, p) ==
    LET pair == get_pair(c)
        open == pair[1]
        close == pair[2]
        open_pos == IF char(t, p) = open THEN Some(p)
                    ELSE scan_open(t, open, close, p, 0)
    IN  IF open_pos = None THEN None
        ELSE scan_close(t, open, close, open_pos[1], 0, 1)

---------------------------------------------------------------------------
(* The directional search utility (helix-core's search module).            *)
(* find_nth_next looks at the offsets after p and find_nth_prev at the     *)
(* offsets before p, never at p itself; inclusive results are the offset   *)
(* of the n-th occurrence.  A start outside the buffer finds nothing.      *)

RECURSIVE find_nth_next(_, _, _, _, _)
find_nth_next(t, c, p, k, inclusive) ==
    IF p >= len_chars(t) \/ k = 0 THEN None
    ELSE IF p + 1 >= len_chars(t) THEN None
    ELSE IF char(t, p + 1) = c
         THEN IF k = 1
              THEN Some(IF inclusive THEN p + 1 ELSE p)
              ELSE find_nth_next(t, c, p + 1, k - 1, inclusive)
         ELSE find_nth_next(t, c, p + 1, k, inclusive)

RECURSIVE find_nth_prev(_, _, _, _, _)
find_nth_prev(t, c, p, k, inclusive) ==
    IF p = 0 \/ p > len_chars(t) \/ k = 0 THEN None
    ELSE IF char(t, p - 1) = c
         THEN IF k = 1
              THEN Some(IF inclusive THEN p - 1 ELSE p)
              ELSE find_nth_prev(t, c, p - 1, k - 1, inclusive)
         ELSE find_nth_prev(t, c, p - 1, k, inclusive)

---------------------------------------------------------------------------
(* find_nth_pairs_pos                                                      *)

Returned(v) == [status |-> "returned", value |-> v, wrapped |-> FALSE]

ReturnedWrapped(v) == [status |-> "returned", value |-> v, wrapped |-> TRUE]

Panicked == [status |-> "panicked", value |-> None, wrapped |-> FALSE]

(* pos - 1 on usize without overflow checks *)
wrapping_sub(a, b) == (a - b) % UsizeModulus

(* Line 87 returns early when no open is found, so line 88's pos - 1 is    *)
(* evaluated only after an open was found at or before pos.  At pos = 0    *)
(* the subtraction overflows: a build with overflow checks panics, one     *)
(* without wraps to the largest usize, a start far outside the buffer.     *)
find_nth_pairs_pos_exclusive(t, c, p, k, overflow_checks) ==
    LET pair == get_pair(c)
        open_pos == find_nth_prev(t, pair[1], p, k, TRUE)
    IN  IF open_pos = None THEN Returned(None)
        ELSE IF p = 0 /\ overflow_checks THEN Panicked
        ELSE LET close_pos == find_nth_next(t, pair[2], wrapping_sub(p, 1), k, TRUE)
             IN  IF close_pos = None
                 THEN IF p = 0 THEN ReturnedWrapped(None) ELSE Returned(None)
                 ELSE Returned(Some(<<open_pos[1], close_pos[1]>>))

find_nth_pairs_pos(t, c, p, k, overflow_checks) ==
    LET pair == get_pair(c)
        open_pos == find_nth_prev(t, pair[1], p + 1, k, TRUE)
    IN  IF open_pos = None THEN Returned(None)
        ELSE IF p = 0 /\ overflow_checks THEN Panicked
        ELSE LET close_pos == find_nth_next(t, pair[2], wrapping_sub(p, 1), k, TRUE)
             IN  IF close_pos = None
                 THEN IF p = 0 THEN ReturnedWrapped(None) ELSE Returned(None)
                 ELSE Returned(Some(<<open_pos[1], close_pos[1]>>))

---------------------------------------------------------------------------
(* get_surround_pos                                                        *)

contains(v, x) == \E i \in 1..Len(v) : v[i] = x

RECURSIVE surround_loop_no_overlap_check(_, _, _, _, _)
surround_loop_no_overlap_check(t, sel, c, i, change_pos) ==
    IF i > Len(sel) THEN Some(change_pos)
    ELSE LET found == find_balanced_pairs_pos(t, c, sel[i])
         IN  IF found = None THEN None
             ELSE surround_loop_no_overlap_check(t, sel, c, i + 1,
                      change_pos \o <<found[1][1], found[1][2]>>)

RECURSIVE surround_loop_skip_absent(_, _, _, _, _)
surround_loop_skip_absent(t, sel, c, i, change_pos) ==
    IF i > Len(sel) THEN Some(change_pos)
    ELSE LET found == find_balanced_pairs_pos(t, c, sel[i])
         IN  IF found = None
             THEN surround_loop_skip_absent(t, sel, c, i + 1, change_pos)
             ELSE IF contains(change_pos, found[1][1])
                     \/ contains(change_pos, found[1][2])
             THEN None
             ELSE surround_loop_skip_absent(t, sel, c, i + 1,
                      change_pos \o <<found[1][1], found[1][2]>>)

(* The loop of lines 105-111 at the i-th range of the selection.           *)
RECURSIVE surround_loop(_, _, _, _, _)
surround_loop(t, sel, c, i, change_pos) ==
    IF i > Len(sel) THEN Some(change_pos)
    ELSE LET found == find_balanced_pairs_pos(t, c, sel[i])
         IN  IF found = None THEN None
             ELSE IF contains(change_pos, found[1][1])
                     \/ contains(change_pos, found[1][2])
             THEN None
             ELSE surround_loop(t, sel, c, i + 1,
                      change_pos \o <<found[1][1], found[1][2]>>)

get_surround_pos_no_overlap_check(t, sel, c, skp) ==
    surround_loop_no_overlap_check(t, sel, c, 1, << >>)

get_surround_pos_skip_absent(t, sel, c, skp) ==
    surround_loop_skip_absent(t, sel, c, 1, << >>)

get_surround_pos(t, sel, c, skp) == surround_loop(t, sel, c, 1, << >>)

---------------------------------------------------------------------------
(* Inputs.                                                                 *)

Alphabet == {LParen, RParen, Quote}

TableChars == UNION {{PAIRS[i][1], PAIRS[i][2]} : i \in 1..Len(PAIRS)}

Chars == TableChars \cup {Quote}

Texts == UNION {[1..l -> Alphabet] : l \in 1..MaxLen}

Selections(t) ==
    UNION {[1..k -> 0..(len_chars(t) - 1)] : k \in 1..MaxCursors}

NoCall == [status |-> "none", value |-> None, wrapped |-> FALSE]

Init ==
    /\ text \in Texts
    /\ op = "init"
    /\ ch = LParen
    /\ pos = 0
    /\ n = 1
    /\ selection = <<0>>
    /\ skip = 0
    /\ outcome = NoCall

(* Nothing persists between calls: a behaviour is one call on one buffer   *)
(* snapshot, made from the state in which no call has been made yet.       *)
Idle == op = "init"

GetPair ==
    /\ Idle
    /\ \E c \in Chars :
        /\ ch' = c
        /\ outcome' = Returned(get_pair(c))
    /\ op' = "get_pair"
    /\ pos' = 0
    /\ n' = 1
    /\ selection' = <<0>>
    /\ skip' = 0
    /\ UNCHANGED text

FindBalancedPairsPos ==
    /\ Idle
    /\ \E c \in Alphabet, p \in 0..(len_chars(text) - 1) :
        /\ ch' = c
        /\ pos' = p
        /\ outcome' = Returned(find_balanced_pairs_pos(text, c, p))
    /\ op' = "find_balanced_pairs_pos"
    /\ n' = 1
    /\ selection' = <<0>>
    /\ skip' = 0
    /\ UNCHANGED text

FindNthPairsPos ==
    /\ Idle
    /\ \E c \in Alphabet, p \in 0..(len_chars(text) - 1), k \in 1..MaxN,
          overflow_checks \in BOOLEAN :
        /\ ch' = c
        /\ pos' = p
        /\ n' = k
        /\ outcome' = find_nth_pairs_pos(text, c, p, k, overflow_checks)
    /\ op' = "find_nth_pairs_pos"
    /\ selection' = <<0>>
    /\ skip' = 0
    /\ UNCHANGED text

GetSurroundPos ==
    /\ Idle
    /\ len_chars(text) <= MaxSurroundLen
    /\ \E c \in Alphabet, sel \in Selections(text), s \in 0..MaxSkip :
        /\ ch' = c
        /\ selection' = sel
        /\ skip' = s
        /\ outcome' = Returned(get_surround_pos(text, sel, c, s))
    /\ op' = "get_surround_pos"
    /\ pos' = 0
    /\ n' = 1
    /\ UNCHANGED text

Next ==
    \/ GetPair
    \/ FindBalancedPairsPos
    \/ FindNthPairsPos
    \/ GetSurroundPos

Spec == Init /\ [][Next]_vars

---------------------------------------------------------------------------
(* Reference notions the properties are stated with.                       *)

Offsets == 0..(len_chars(text) - 1)

open_ch == get_pair(ch)[1]

close_ch == get_pair(ch)[2]

(* occurrences of character c at the offsets i..j *)
Count(c, i, j) == Cardinality({k \in i..j : k \in Offsets /\ char(text, k) = c})

(* the offsets i..j hold a balanced bracket text (the empty range does) *)
BalancedRange(i, j) ==
    /\ \A k \in i..j : Count(open_ch, i, k) >= Count(close_ch, i, k)
    /\ Count(open_ch, i, j) = Count(close_ch, i, j)

BalancedText == BalancedRange(0, len_chars(text) - 1)

(* o and c are the offsets of an open and of the close matching it *)
IsPair(o, c) ==
    /\ o < c
    /\ char(text, o) = open_ch
    /\ char(text, c) = close_ch
    /\ BalancedRange(o + 1, c - 1)

MatchedPairs == {s \in Offsets \X Offsets : IsPair(s[1], s[2])}

EnclosingPairs == {s \in MatchedPairs : s[1] < pos /\ pos < s[2]}

Innermost(S) == CHOOSE s \in S : \A r \in S : r[1] <= s[1]

CalledBalanced == op = "find_balanced_pairs_pos"

CalledNth == op = "find_nth_pairs_pos"

CalledSurround == op = "get_surround_pos"

---------------------------------------------------------------------------
(* C1: in a text balanced for a table pair (open # close), with the cursor *)
(* on a character that is neither open nor close, find_balanced_pairs_pos  *)
(* returns the innermost pair enclosing the cursor (largest open offset    *)
(* with o < pos < c), and absent when no pair encloses the cursor.         *)
C1_InnermostEnclosingPair ==
    (/\ CalledBalanced
     /\ open_ch # close_ch
     /\ BalancedText
     /\ char(text, pos) \notin {open_ch, close_ch})
    => outcome = Returned(IF EnclosingPairs = {} THEN None
                          ELSE Some(Innermost(EnclosingPairs)))

(* the cursor is inside two nested pairs and the inner one is returned *)
C1_Witness ==
    /\ CalledBalanced
    /\ open_ch # close_ch
    /\ BalancedText
    /\ char(text, pos) \notin {open_ch, close_ch}
    /\ Cardinality(EnclosingPairs) >= 2
    /\ outcome.value = Some(Innermost(EnclosingPairs))

(* the cursor is inside a pair, after a nested pair the backward scan has  *)
(* to skip, and the enclosing pair is returned                             *)
C1_WitnessSkipsNested ==
    /\ CalledBalanced
    /\ open_ch # close_ch
    /\ BalancedText
    /\ char(text, pos) \notin {open_ch, close_ch}
    /\ outcome.value # None
    /\ outcome.value[1] \in EnclosingPairs
    /\ \E s \in MatchedPairs : outcome.value[1][1] < s[1] /\ s[2] < pos

(* the cursor is in no pair, between two sibling pairs, and absent is returned *)
C1_WitnessAbsent ==
    /\ CalledBalanced
    /\ open_ch # close_ch
    /\ BalancedText
    /\ char(text, pos) \notin {open_ch, close_ch}
    /\ EnclosingPairs = {}
    /\ \E s \in MatchedPairs : s[2] < pos
    /\ \E s \in MatchedPairs : pos < s[1]
    /\ outcome.value = None

(* C2: in a text balanced for a table pair, with the cursor on an open or  *)
(* a close, find_balanced_pairs_pos returns that delimiter's own pair: the *)
(* matched pair whose open offset is pos (cursor on open), whose close     *)
(* offset is pos (cursor on close).                                        *)
C2_OwnPairOnDelimiter ==
    (/\ CalledBalanced
     /\ open_ch # close_ch
     /\ BalancedText
     /\ char(text, pos) \in {open_ch, close_ch})
    => \E s \in MatchedPairs :
          /\ char(text, pos) = open_ch => s[1] = pos
          /\ char(text, pos) = close_ch => s[2] = pos
          /\ outcome = Returned(Some(s))

(* the cursor is on the close of an outer pair that holds a nested pair *)
C2_Witness ==
    /\ CalledBalanced
    /\ open_ch # close_ch
    /\ BalancedText
    /\ char(text, pos) = close_ch
    /\ outcome.value # None
    /\ outcome.value[1][2] = pos
    /\ \E s \in MatchedPairs : outcome.value[1][1] < s[1] /\ s[2] < pos

(* C5: for a self-pairing character (get_pair(ch) = (ch, ch)) and a cursor *)
(* strictly between two consecutive occurrences of ch,                     *)
(* find_balanced_pairs_pos returns (nearest occurrence before the cursor,  *)
(* nearest occurrence after the cursor).                                   *)
C5_SelfPairNearestOccurrences ==
    LET before == {k \in Offsets : k < pos /\ char(text, k) = ch}
        after == {k \in Offsets : k > pos /\ char(text, k) = ch}
    IN  (/\ CalledBalanced
         /\ open_ch = close_ch
         /\ char(text, pos) # ch
         /\ before # {}
         /\ after # {})
        => outcome = Returned(Some(
               <<CHOOSE k \in before : \A j \in before : j <= k,
                 CHOOSE k \in after : \A j \in after : k <= j>>))

(* C10: on any text, balanced or not, a span (o, c) returned by            *)
(* find_balanced_pairs_pos has open at o and close at c and encloses the   *)
(* cursor: o <= pos <= c, with o = pos when the cursor is on an open.      *)
C10_SpanDelimitersEncloseCursor ==
    (CalledBalanced /\ outcome.value # None)
    => LET o == outcome.value[1][1]
           c == outcome.value[1][2]
       IN  /\ char(text, o) = open_ch
           /\ char(text, c) = close_ch
           /\ o <= pos
           /\ pos <= c
           /\ char(text, pos) = open_ch => o = pos

(* a span is returned on an unbalanced text, for a cursor strictly inside it *)
C10_Witness ==
    /\ CalledBalanced
    /\ ~BalancedText
    /\ outcome.value # None
    /\ outcome.value[1][1] < pos
    /\ pos < outcome.value[1][2]

---------------------------------------------------------------------------
(* The n-th occurrence of c counted backward from offset p (p included),   *)
(* and forward from offset p (p included), as sets of at most one offset.  *)
NthBackward(c, p, k) ==
    {o \in Offsets : o <= p /\ char(text, o) = c /\ Count(c, o, p) = k}

NthForward(c, p, k) ==
    {o \in Offsets : o >= p /\ char(text, o) = c /\ Count(c, p, o) = k}

NthSpan(p, k) ==
    IF NthBackward(open_ch, p, k) = {} \/ NthForward(close_ch, p, k) = {}
    THEN None
    ELSE Some(<<CHOOSE o \in NthBackward(open_ch, p, k) : TRUE,
                CHOOSE o \in NthForward(close_ch, p, k) : TRUE>>)

(* C6: for 1 <= pos < length and n >= 1, find_nth_pairs_pos returns the    *)
(* n-th open at or before pos and the n-th close at or after pos, raw      *)
(* occurrences with no depth tracking, and absent exactly when either      *)
(* direction has fewer than n; hence for m > n the span for m strictly     *)
(* contains the span for n, and absence at n implies absence at m.         *)
C6_NthRawOccurrences ==
    (CalledNth /\ pos >= 1)
    => /\ outcome = Returned(NthSpan(pos, n))
       /\ \A m \in (n + 1)..(MaxN + 1), checks \in BOOLEAN :
             LET wider == find_nth_pairs_pos(text, ch, pos, m, checks)
             IN  /\ wider.status = "returned"
                 /\ outcome.value = None => wider.value = None
                 /\ (outcome.value # None /\ wider.value # None)
                    => /\ wider.value[1][1] < outcome.value[1][1]
                       /\ outcome.value[1][2] < wider.value[1][2]

(* for a table pair, n = 2 finds a span, which strictly contains the span  *)
(* n = 1 finds                                                             *)
C6_Witness ==
    /\ CalledNth
    /\ open_ch # close_ch
    /\ pos >= 1
    /\ n = 2
    /\ outcome.value # None
    /\ find_nth_pairs_pos(text, ch, pos, 1, TRUE).value # None
    /\ outcome.value[1][1] < find_nth_pairs_pos(text, ch, pos, 1, TRUE).value[1][1]

(* C7: for every valid cursor offset, pos = 0 included, find_nth_pairs_pos *)
(* completes with a span or absent, and pos - 1 is computed without going  *)
(* below zero.                                                             *)
C7_NthTotalNoUnderflow ==
    CalledNth => (outcome.status = "returned" /\ ~outcome.wrapped)

(* C8: every span returned by find_balanced_pairs_pos or                   *)
(* find_nth_pairs_pos has open_offset < close_offset, on every text, for   *)
(* every delimiter (self-pairing ones included) and every cursor.          *)
C8_OpenBeforeClose ==
    ((CalledBalanced \/ CalledNth) /\ outcome.value # None)
    => outcome.value[1][1] < outcome.value[1][2]

(* C9: get_pair always returns; it maps both members of every table entry  *)
(* to that entry and any other character x to (x, x); every entry has      *)
(* open # close and no character occurs in two entries.                    *)
C9_GetPairTable ==
    (op = "get_pair")
    => /\ outcome.status = "returned"
       /\ \A i \in 1..Len(PAIRS) :
             ch \in {PAIRS[i][1], PAIRS[i][2]} => outcome.value = PAIRS[i]
       /\ ch \notin TableChars => outcome.value = <<ch, ch>>
       /\ \A i \in 1..Len(PAIRS) : PAIRS[i][1] # PAIRS[i][2]
       /\ \A i, j \in 1..Len(PAIRS) :
             i # j => {PAIRS[i][1], PAIRS[i][2]} \cap {PAIRS[j][1], PAIRS[j][2]} = {}

(* get_pair was called with the close of the last table entry *)
C9_Witness ==
    /\ op = "get_pair"
    /\ ch = PAIRS[Len(PAIRS)][2]
    /\ outcome.value = PAIRS[Len(PAIRS)]

---------------------------------------------------------------------------
(* The span find_balanced_pairs_pos resolves for the i-th cursor.          *)
SpanOf(i) == find_balanced_pairs_pos(text, ch, selection[i])

Cursors == 1..Len(selection)

SharesOffset(i, j) ==
    /\ SpanOf(i) # None
    /\ SpanOf(j) # None
    /\ {SpanOf(i)[1][1], SpanOf(i)[1][2]} \cap {SpanOf(j)[1][1], SpanOf(j)[1][2]} # {}

(* C3: a sequence returned by get_surround_pos for k cursors has 2k        *)
(* offsets, the i-th two being find_balanced_pairs_pos's span for the i-th *)
(* cursor in selection order; the 2k offsets are pairwise distinct; and    *)
(* every value of skip gives the same result.                              *)
C3_FlatSpansPerCursor ==
    (CalledSurround /\ outcome.value # None)
    => LET v == outcome.value[1]
       IN  /\ Len(v) = 2 * Len(selection)
           /\ \A i \in Cursors : SpanOf(i) = Some(<<v[2 * i - 1], v[2 * i]>>)
           /\ \A i, j \in 1..Len(v) : i # j => v[i] # v[j]
           /\ \A s \in 0..(MaxSkip + 1) :
                 get_surround_pos(text, selection, ch, s) = outcome.value

(* two cursors resolved to two different pairs, with skip = 1 *)
C3_Witness ==
    /\ CalledSurround
    /\ Len(selection) >= 2
    /\ skip = 1
    /\ outcome.value # None
    /\ Len(outcome.value[1]) = 2 * Len(selection)

(* C4: get_surround_pos returns absent exactly when some cursor's          *)
(* find_balanced_pairs_pos is absent or the spans of two different cursors *)
(* share an offset; otherwise it returns a sequence.                       *)
C4_AllOrNothing ==
    CalledSurround
    => /\ outcome.status = "returned"
       /\ outcome.value = None
          <=> \/ \E i \in Cursors : SpanOf(i) = None
              \/ \E i, j \in Cursors : i # j /\ SharesOffset(i, j)

(* every cursor has a span, two cursors at different offsets resolve to    *)
(* the same pair, and absent is returned                                   *)
C4_Witness ==
    /\ CalledSurround
    /\ \A i \in Cursors : SpanOf(i) # None
    /\ \E i, j \in Cursors :
          selection[i] # selection[j] /\ SpanOf(i) = SpanOf(j)
    /\ outcome.value = None

(* one of several cursors has no enclosing pair, and absent is returned *)
C4_WitnessAbsentCursor ==
    /\ CalledSurround
    /\ \E i, j \in Cursors : SpanOf(i) = None /\ SpanOf(j) # None
    /\ outcome.value = None

===========================================================================
